---- MODULE Spec2Model ----
(***************************************************************************)
(* A model of lazy-gantt: the LazyGantt data class and its                 *)
(* DataColumnChecker (src/lazygantt/lazygantt.py), driven the way          *)
(* src/example.py drives them.                                             *)
(*                                                                         *)
(* A pandas DataFrame is a record                                          *)
(*   [columns : the column names of its schema,                            *)
(*    strings : the columns whose dtype is string/object,                  *)
(*    rows    : a sequence of records [ix, start, duration, phase_number]] *)
(* where ix is the row's index label and a cell is NaN (<<>>) or <<v>>.    *)
(* A cell of a string-typed column is abstracted to null / not null.       *)
(* Python's None is <<>> and a value x that may be None is <<x>>.          *)
(* An interval (a row of an n x 2 array) is the pair <<start, end>>.       *)
(* All integers of the model are far below the int32 range the code        *)
(* converts to, so no arithmetic wraps.                                    *)
(***************************************************************************)
EXTENDS Integers, Sequences, FiniteSets, TLC

VARIABLES
    pc,                \* position of the driving script
    ALL_COLUMNS,       \* LazyGantt.ALL_COLUMNS, a class attribute (one list)
    csv,               \* the table as read from the file, None without data
    data,              \* the DataFrame the code works on (modified in place)
    milestones_arg,    \* the milestones argument of the constructor
    no_months, no_packages, no_phases, packages, phases, milestones,
    error,             \* the exception that ended the last call, if any
    packages_grid, phases_grid,   \* the arrays plot hands to the chart
    recognized,        \* the target_columns argument as the caller wrote it
    target_columns,    \* DataColumnChecker.target_columns (the caller's list)
    mandatory_columns, \* DataColumnChecker.mandatory_columns
    valid_columns,     \* what get_valid_columns returned, if it was reached
    chart,             \* the attributes of the Chart object
    config             \* the document load_config read, None before

vars == <<pc, ALL_COLUMNS, csv, data, milestones_arg, no_months, no_packages,
          no_phases, packages, phases, milestones, error, packages_grid,
          phases_grid, recognized, target_columns, mandatory_columns,
          valid_columns, chart, config>>

----------------------------------------------------------------------------
(* Values *)

None == <<>>

Some(x) == <<x>>

NaN == <<>>

IsNull(cell) == cell = NaN

Val(cell) == cell[1]

Range(s) == {s[i] : i \in 1..Len(s)}

RECURSIVE SeqMax(_)
SeqMax(s) ==
    IF Len(s) = 1 THEN s[1]
    ELSE LET m == SeqMax(Tail(s)) IN IF s[1] >= m THEN s[1] ELSE m

NoError == [type |-> "none", kind |-> "", column |-> ""]

----------------------------------------------------------------------------
(* Class attributes of LazyGantt *)

ColumnNames == {"start", "duration", "phase_number"}

VARIABLE_MAPPER ==
    [start |-> "start", duration |-> "length", phase_number |-> "phase"]

InitialALL_COLUMNS == <<"start", "duration", "phase_number">>

MANDATORY_COLUMNS == <<"start", "duration">>

----------------------------------------------------------------------------
(* DataColumnChecker *)

check_existence(column, df) == column \in df.columns

check_content(column, df) ==
    \E i \in 1..Len(df.rows) : ~IsNull(df.rows[i][column])

check_for_strings(column, df) == column \notin df.strings

\* The cascade of self.conditions, in the dict's order, stopped at the first
\* failing condition; "none" when the column passes all three.
FirstFailure(column, df) ==
    IF ~check_existence(column, df) THEN "existent_column"
    ELSE IF ~check_content(column, df) THEN "content_in_column"
    ELSE IF ~check_for_strings(column, df) THEN "string_in_column"
    ELSE "none"

\* list.remove(x): removes the first occurrence of x.
RECURSIVE ListRemove(_, _)
ListRemove(s, x) ==
    IF s = <<>> THEN <<>>
    ELSE IF s[1] = x THEN Tail(s)
    ELSE <<s[1]>> \o ListRemove(Tail(s), x)

\* for column in self.target_columns: ... self.target_columns.remove(column)
\* The list iterator keeps a position i into the list it iterates; removing
\* the current element shifts the rest left while the position still moves on.
RECURSIVE filter_for_valid_columns(_, _, _, _)
filter_for_valid_columns(tc, i, df, mandatory) ==
    IF i > Len(tc)
    THEN [raised |-> FALSE, target_columns |-> tc, error |-> NoError]
    ELSE LET column == tc[i]
             failed == FirstFailure(column, df)
         IN  IF failed = "none"
             THEN filter_for_valid_columns(tc, i + 1, df, mandatory)
             ELSE IF column \in Range(mandatory)
             THEN [raised |-> TRUE, target_columns |-> tc,
                   error |-> [type |-> "Exception", kind |-> failed,
                              column |-> column]]
             ELSE filter_for_valid_columns(ListRemove(tc, column), i + 1,
                                           df, mandatory)

DataColumnChecker_without_empty_check(df, tc, mandatory) ==
    filter_for_valid_columns(tc, 1, df, mandatory)

\* DataColumnChecker.__init__
DataColumnChecker(df, tc, mandatory) ==
    IF tc = <<>>
    THEN [raised |-> TRUE, target_columns |-> tc,
          error |-> [type |-> "Exception", kind |-> "empty_target_columns",
                     column |-> ""]]
    ELSE filter_for_valid_columns(tc, 1, df, mandatory)

get_valid_columns(checker) == checker.target_columns

----------------------------------------------------------------------------
(* LazyGantt: the attributes of one object are the record                  *)
(*   [no_months, no_packages, no_phases, packages, phases, milestones]     *)

DEFAULT_NO_MONTHS == 24

DEFAULT_NO_PACKAGES == 6

DEFAULT_NO_PHASES == 3

DEFAULT_PACKAGES ==
    << <<0, 3>>, <<3, 7>>, <<5, 12>>, <<12, 18>>, <<17, 24>>, <<19, 24>> >>

DEFAULT_PHASES == << <<0, 6>>, <<6, 16>>, <<16, 24>> >>

DEFAULT_MILESTONES == <<5, 8, 14, 19, 22>>

\* __init__, lines 83-101: the attributes before any data is read.
init_defaults(ms_arg) ==
    [no_months   |-> DEFAULT_NO_MONTHS,
     no_packages |-> DEFAULT_NO_PACKAGES,
     no_phases   |-> Some(DEFAULT_NO_PHASES),
     packages    |-> DEFAULT_PACKAGES,
     phases      |-> Some(DEFAULT_PHASES),
     milestones  |-> IF ms_arg # None THEN ms_arg[1] ELSE DEFAULT_MILESTONES]

EmptyKeyMapper == [k \in {} |-> ""]

build_key_mapper(key_mapper, string) ==
    IF string \in DOMAIN VARIABLE_MAPPER
    THEN [k \in DOMAIN key_mapper \cup {VARIABLE_MAPPER[string]} |->
            IF k = VARIABLE_MAPPER[string] THEN string ELSE key_mapper[k]]
    ELSE key_mapper

\* for col in filtered_columns: key_mapper = self._build_key_mapper(...)
RECURSIVE KeyMapperOf(_, _)
KeyMapperOf(key_mapper, filtered_columns) ==
    IF filtered_columns = <<>> THEN key_mapper
    ELSE KeyMapperOf(build_key_mapper(key_mapper, filtered_columns[1]),
                     Tail(filtered_columns))

\* data.drop(nan_rows, inplace=True): the rows keep their index labels.
drop_nan_rows(rows, start_column) ==
    SelectSeq(rows, LAMBDA r : ~IsNull(r[start_column]))

\* astype('int32') raises on a column that still holds a NaN.
HasNaN(rows, column) == \E i \in 1..Len(rows) : IsNull(rows[i][column])

\* The columns of key_mapper in the order of its keys (insertion order).
MappedColumns(filtered_columns) ==
    SelectSeq(filtered_columns, LAMBDA c : c \in DOMAIN VARIABLE_MAPPER)

ColumnValues(rows, column) == [i \in 1..Len(rows) |-> Val(rows[i][column])]

\* Series.idxmax(): the position of the first occurrence of the maximum.
idxmax(values) ==
    CHOOSE i \in 1..Len(values) :
        /\ values[i] = SeqMax(values)
        /\ \A j \in 1..(i - 1) : values[j] # SeqMax(values)

total_duration_latest_end(starts, durations) ==
    SeqMax([i \in 1..Len(starts) |-> starts[i] + durations[i]])

\* lines 194-197
total_duration(starts, durations) ==
    SeqMax(starts) + durations[idxmax(starts)]

\* line 201: data.index.max(), the largest index label left in the frame.
index_max(rows) == SeqMax([i \in 1..Len(rows) |-> rows[i].ix])

package_interval_no_sum(s, d) == <<s, d>>

\* lines 202-205: one row (start, start + duration) per record.
package_interval(s, d) == <<s, s + d>>

compose_packages(starts, durations) ==
    [i \in 1..Len(starts) |-> package_interval(starts[i], durations[i])]

\* len(Series.unique())
nunique(values) == Cardinality(Range(values))

idx_phase_change_at_run_ends(ids) ==
    SelectSeq([i \in 1..Len(ids) |-> i],
              LAMBDA i : i = Len(ids) \/ ids[i] # ids[i + 1])

\* lines 309-310: the positions whose diff() is not 0; the diff of the first
\* record is NaN, which is not 0 either.
idx_phase_change(ids) ==
    SelectSeq([i \in 1..Len(ids) |-> i],
              LAMBDA i : i = 1 \/ ids[i] # ids[i - 1])

close_last_phase_at_last_record(months, starts, durations) ==
    starts[Len(starts)] + durations[Len(durations)]

\* line 317: the last phase is closed with the total number of months.
close_last_phase(months, starts, durations) == months

close_phase_at_next_start(next_change, starts, durations) ==
    starts[next_change]

\* lines 314-315: a phase other than the last is closed with start +
\* duration of the record at the NEXT phase change.
close_phase(next_change, starts, durations) ==
    starts[next_change] + durations[next_change]

\* _compose_phases. numpy raises ValueError when the array assigned to a
\* slice has neither the slice's length nor length 1 (broadcasting), so the
\* last branch is reached only with runs = n_phases >= 1.
compose_phases(n_phases, months, ids, starts, durations) ==
    LET idx  == idx_phase_change(ids)
        runs == Len(idx)
    IN  IF n_phases < 0
        THEN [raised |-> TRUE, kind |-> "negative_dimensions", phases |-> <<>>]
        ELSE IF ~(runs = n_phases \/ runs = 1)
        THEN [raised |-> TRUE, kind |-> "broadcast_starts", phases |-> <<>>]
        ELSE IF n_phases = 0
        THEN [raised |-> TRUE, kind |-> "index_out_of_bounds", phases |-> <<>>]
        ELSE IF ~(runs - 1 = n_phases - 1 \/ runs - 1 = 1)
        THEN [raised |-> TRUE, kind |-> "broadcast_ends", phases |-> <<>>]
        ELSE [raised |-> FALSE, kind |-> "",
              phases |->
                [k \in 1..n_phases |->
                   << starts[idx[k]],
                      IF k = n_phases
                      THEN close_last_phase(months, starts, durations)
                      ELSE close_phase(idx[k + 1], starts, durations) >>]]

\* _fill_from_csv(self, data) with LazyGantt.ALL_COLUMNS = all_columns.
\* Returns the attributes, the list ALL_COLUMNS and the frame as it leaves them.
fill_from_csv(self, df, all_columns) ==
    LET checker  == DataColumnChecker(df, all_columns, MANDATORY_COLUMNS)
        filtered == get_valid_columns(checker)
        key_mapper == KeyMapperOf(EmptyKeyMapper, filtered)
        rows     == drop_nan_rows(df.rows, key_mapper["start"])
        dropped  == [df EXCEPT !.rows = rows]
        mapped   == MappedColumns(filtered)
        starts   == ColumnValues(rows, key_mapper["start"])
        durations == ColumnValues(rows, key_mapper["length"])
        ids      == ColumnValues(rows, key_mapper["phase"])
        months   == total_duration(starts, durations)
        filled   == [self EXCEPT !.no_months = months,
                                 !.no_packages = index_max(rows),
                                 !.packages = compose_packages(starts, durations)]
        composed == compose_phases(SeqMax(ids), months, ids, starts, durations)
    IN  IF checker.raised
        THEN [raised |-> TRUE, error |-> checker.error, self |-> self,
              ALL_COLUMNS |-> checker.target_columns, data |-> df]
        ELSE IF \E i \in 1..Len(mapped) : HasNaN(rows, mapped[i])
        THEN [raised |-> TRUE,
              error |-> [type |-> "ValueError", kind |-> "astype_nan",
                         column |-> mapped[CHOOSE i \in 1..Len(mapped) :
                                      /\ HasNaN(rows, mapped[i])
                                      /\ \A j \in 1..(i - 1) :
                                            ~HasNaN(rows, mapped[j])]],
              self |-> self, ALL_COLUMNS |-> checker.target_columns,
              data |-> dropped]
        ELSE IF "phase" \notin DOMAIN key_mapper
        THEN [raised |-> FALSE, error |-> NoError,
              self |-> [filled EXCEPT !.no_phases = None, !.phases = None],
              ALL_COLUMNS |-> checker.target_columns, data |-> dropped]
        ELSE IF nunique(ids) > 1
        THEN IF composed.raised
             THEN [raised |-> TRUE,
                   error |-> [type |-> "ValueError", kind |-> composed.kind,
                              column |-> key_mapper["phase"]],
                   self |-> [filled EXCEPT !.no_phases = Some(SeqMax(ids))],
                   ALL_COLUMNS |-> checker.target_columns, data |-> dropped]
             ELSE [raised |-> FALSE, error |-> NoError,
                   self |-> [filled EXCEPT !.no_phases = Some(SeqMax(ids)),
                                           !.phases = Some(composed.phases)],
                   ALL_COLUMNS |-> checker.target_columns, data |-> dropped]
        ELSE [raised |-> FALSE, error |-> NoError, self |-> filled,
              ALL_COLUMNS |-> checker.target_columns, data |-> dropped]

filter_milestones_strict(ms, months) ==
    SelectSeq(SelectSeq(ms, LAMBDA m : ~(m < 0)), LAMBDA m : ~(m >= months))

\* _filter_milestones: the negative ones go first, then those beyond the
\* total number of months; boolean-mask indexing keeps the order.
filter_milestones(ms, months) ==
    LET huge_enough == SelectSeq(ms, LAMBDA m : ~(m < 0))
    IN  SelectSeq(huge_enough, LAMBDA m : ~(m > months))

\* arr[a:b] = True on a row of the given width: Python's slice bounds.
SliceBound(a, width) ==
    IF a < 0 THEN (IF a + width < 0 THEN 0 ELSE a + width)
    ELSE IF a > width THEN width ELSE a

in_slice_closed(a, b, c, width) ==
    (IF a < 0 THEN 0 ELSE a) <= c /\ c <= (IF b > width THEN width ELSE b)

\* line 372: boolean_arr[i, a:b] = True sets column c when it is in a:b.
in_slice(a, b, c, width) ==
    SliceBound(a, width) <= c /\ c < SliceBound(b, width)

\* _to_boolean_array(arr, x_range) on an object whose no_months is months:
\* y_range * x_range cells are reshaped to (y_range, self.no_months).
\* Column c of the array is position c + 1 of the row.
to_boolean_array(arr, x_range, months) ==
    IF arr = None THEN [raised |-> FALSE, value |-> None]
    ELSE LET y_range == Len(arr[1]) IN
         IF y_range * x_range # y_range * months
         THEN [raised |-> TRUE, value |-> None]
         ELSE [raised |-> FALSE,
               value |-> Some(
                 [i \in 1..y_range |->
                    [c \in 1..months |->
                       in_slice(arr[1][i][1], arr[1][i][2], c - 1, months)]])]

----------------------------------------------------------------------------
(* Chart (src/lazygantt/visuals.py): the attributes of one object are the  *)
(* record [colors, image, font, milestones, labels]. colors maps a role to *)
(* a color name; of the other four dictionaries the model keeps the keys.  *)
(* A configuration document maps a section name to None (the section is    *)
(* not in the file) or to the section's dictionary.                        *)

IMAGE_KEYS == {"width", "height", "aspect", "dpi", "format"}

FONT_KEYS == {"fontsize"}

MILESTONES_KEYS == {"linewidth"}

LABELS_KEYS ==
    {"package_abbr", "package_ylabel", "milestones_abbr", "phase_abbr",
     "phase_ylabel", "xlabel", "xticks_steps"}

DEFAULT_COLORS ==
    [primary |-> "steelblue", secondary |-> "yellowgreen",
     contrast |-> "darkred", background |-> "beige"]

\* Chart.__init__ without config
DefaultChart ==
    [colors |-> DEFAULT_COLORS, image |-> IMAGE_KEYS, font |-> FONT_KEYS,
     milestones |-> MILESTONES_KEYS, labels |-> LABELS_KEYS]

\* The names of matplotlib.colors.CSS4_COLORS the model uses.
CSS4_COLORS == {"steelblue", "yellowgreen", "darkred", "beige", "navy"}

is_css4_color_any(v) == TRUE

\* lines 82-84: mcolors.CSS4_COLORS[v] raises KeyError for an unknown name.
is_css4_color(v) == v \in CSS4_COLORS

\* line 89: self.colors[k] = v, for a role the chart has or a new one.
set_color(colors, k, v) ==
    [r \in DOMAIN colors \cup {k} |-> IF r = k THEN v ELSE colors[r]]

\* lines 81-89: for k, v in config['colors'].items(), over the entries that
\* are left; the order of the entries does not matter, each sets its own key.
RECURSIVE process_colors(_, _, _)
process_colors(colors, entries, left) ==
    IF left = {} THEN colors
    ELSE LET k == CHOOSE r \in left : TRUE IN
         process_colors(IF is_css4_color(entries[k])
                        THEN set_color(colors, k, entries[k])
                        ELSE colors,
                        entries, left \ {k})

KeyError(section) == [type |-> "KeyError", kind |-> section, column |-> ""]

\* lines 91-94: self.<section> = config['<section>'], one after the other;
\* the first section the document lacks raises KeyError and the attributes
\* assigned before it keep their new value.
RECURSIVE assign_sections(_, _, _)
assign_sections(self, document, sections) ==
    IF sections = <<>> THEN [raised |-> FALSE, error |-> NoError, chart |-> self]
    ELSE IF document[sections[1]] = None
    THEN [raised |-> TRUE, error |-> KeyError(sections[1]), chart |-> self]
    ELSE assign_sections([self EXCEPT ![sections[1]] = document[sections[1]][1]],
                         document, Tail(sections))

process_config_without_font(self, document) ==
    IF document.colors = None
    THEN [raised |-> TRUE, error |-> KeyError("colors"), chart |-> self]
    ELSE assign_sections(
           [self EXCEPT !.colors =
              process_colors(self.colors, document.colors[1],
                             DOMAIN document.colors[1])],
           document, <<"image", "milestones", "labels">>)

\* Chart._process_config
process_config(self, document) ==
    IF document.colors = None
    THEN [raised |-> TRUE, error |-> KeyError("colors"), chart |-> self]
    ELSE assign_sections(
           [self EXCEPT !.colors =
              process_colors(self.colors, document.colors[1],
                             DOMAIN document.colors[1])],
           document, <<"image", "font", "milestones", "labels">>)

----------------------------------------------------------------------------
(* Inputs *)

MaxRows == 2

MaxStart == 1

MaxDuration == 1

MaxPhase == 2

MaxMilestones == 3

MaxMilestone == 3

StartCells == {NaN} \cup {Some(v) : v \in 0..MaxStart}

DurationCells == {Some(v) : v \in 1..MaxDuration}

PhaseCells == {Some(v) : v \in 1..MaxPhase}

RowValues ==
    [start : StartCells, duration : DurationCells, phase_number : PhaseCells]

\* pandas.read_csv: the rows get the index labels 0, 1, 2, ...
read_csv(columns, strings, values) ==
    [columns |-> columns, strings |-> strings,
     rows |-> [i \in 1..Len(values) |->
                 [ix |-> i - 1, start |-> values[i].start,
                  duration |-> values[i].duration,
                  phase_number |-> values[i].phase_number]]]

\* Files with all three columns, every cell of duration and phase_number
\* filled, and a start that may be missing.
CleanTables ==
    {read_csv(ColumnNames, {}, values) :
        values \in UNION {[1..n -> RowValues] : n \in 0..MaxRows}}

Kinds == {"missing", "empty", "string"}

\* The same file with one column absent, left blank, or holding text.
Degrade(df, column, kind) ==
    [columns |-> IF kind = "missing" THEN df.columns \ {column}
                 ELSE df.columns,
     strings |-> IF kind = "string" THEN df.strings \cup {column}
                 ELSE df.strings,
     rows |-> [i \in 1..Len(df.rows) |->
                 IF kind \in {"missing", "empty"}
                 THEN [df.rows[i] EXCEPT ![column] = NaN]
                 ELSE df.rows[i]]]

DegradedTables ==
    {Degrade(df, column, kind) :
        df \in CleanTables, column \in ColumnNames, kind \in Kinds}

CellOf(v) == IF v < 0 THEN NaN ELSE Some(v)

\* A file given column by column; a negative number stands for a blank cell.
FileOf(starts, durations, ids) ==
    read_csv(ColumnNames, {},
             [i \in 1..Len(starts) |->
                [start |-> CellOf(starts[i]), duration |-> CellOf(durations[i]),
                 phase_number |-> CellOf(ids[i])]])

ScenarioA ==
    Degrade(FileOf(<<0, 3>>, <<3, 4>>, <<1, 1>>), "phase_number", "missing")

ScenarioB == FileOf(<<0, 3, 6, 8>>, <<3, 6, 14, 4>>, <<1, 1, 2, 2>>)

\* The example of the docstring of _compose_phases.
DocstringExample ==
    FileOf(<<0, 3, 4, 5, 6, 8, 12, 16, 20, 24, 27, 28, 32, 35, 38, 41, 44, 46>>,
           <<3, 6, 17, 3, 14, 4, 9, 9, 5, 5, 14, 5, 8, 5, 6, 4, 3, 2>>,
           <<1, 1, 1, 1, 2, 2, 3, 3, 4, 4, 5, 5, 5, 5, 6, 6, 7, 7>>)

SparseIds == FileOf(<<0, 3, 6, 8>>, <<3, 6, 14, 4>>, <<2, 2, 5, 5>>)

InterleavedIds == FileOf(<<0, 3, 6>>, <<3, 3, 3>>, <<1, 2, 1>>)

BlankLine == FileOf(<<0, -1, 3>>, <<3, -1, 4>>, <<1, -1, 2>>)

BlankDuration == FileOf(<<0, 3>>, <<3, -1>>, <<1, 2>>)

BlankPhase == FileOf(<<0, 3>>, <<3, 4>>, <<1, -1>>)

ScenarioTables ==
    {ScenarioA, ScenarioB, DocstringExample, SparseIds, InterleavedIds,
     BlankLine, BlankDuration, BlankPhase}

Tables == CleanTables \cup DegradedTables \cup ScenarioTables

\* No milestone list, and the list of gantt_with_configurated_visuals in
\* src/example.py.
MilestoneArgs == {None, Some(<<-10, 12, 26, 33, 40>>)}

----------------------------------------------------------------------------
(* The script: one chart at a time, as in the functions of src/example.py *)

NoObject ==
    [no_months |-> 0, no_packages |-> 0, no_phases |-> None,
     packages |-> <<>>, phases |-> None, milestones |-> <<>>]

SetObject(self) ==
    /\ no_months' = self.no_months
    /\ no_packages' = self.no_packages
    /\ no_phases' = self.no_phases
    /\ packages' = self.packages
    /\ phases' = self.phases
    /\ milestones' = self.milestones

checker_vars == <<recognized, target_columns, mandatory_columns, valid_columns>>

chart_vars == <<chart, config>>

object_vars ==
    <<no_months, no_packages, no_phases, packages, phases, milestones>>

Init ==
    /\ pc = "main"
    /\ ALL_COLUMNS = InitialALL_COLUMNS
    /\ csv = None
    /\ data = None
    /\ milestones_arg = None
    /\ no_months = NoObject.no_months
    /\ no_packages = NoObject.no_packages
    /\ no_phases = NoObject.no_phases
    /\ packages = NoObject.packages
    /\ phases = NoObject.phases
    /\ milestones = NoObject.milestones
    /\ error = NoError
    /\ packages_grid = None
    /\ phases_grid = None
    /\ recognized = <<>>
    /\ target_columns = <<>>
    /\ mandatory_columns = <<>>
    /\ valid_columns = None
    /\ chart = DefaultChart
    /\ config = None

\* lg.LazyGantt(milestones=ms): no data, so nothing is read or filtered.
DefaultGantt ==
    /\ pc = "main"
    /\ pc' = "constructed"
    /\ \E ms \in MilestoneArgs :
         /\ milestones_arg' = ms
         /\ SetObject(init_defaults(ms))
    /\ UNCHANGED <<ALL_COLUMNS, csv, data, error, packages_grid, phases_grid,
                   checker_vars, chart_vars>>

\* lg.LazyGantt.load_data(path, milestones): read_csv, then __init__ with the
\* frame; an exception of _fill_from_csv leaves no object and ends the script.
LoadData ==
    /\ pc = "main"
    /\ \E df \in Tables, ms \in MilestoneArgs :
         LET filled == fill_from_csv(init_defaults(ms), df, ALL_COLUMNS) IN
         /\ csv' = Some(df)
         /\ milestones_arg' = ms
         /\ data' = Some(filled.data)
         /\ ALL_COLUMNS' = filled.ALL_COLUMNS
         /\ error' = filled.error
         /\ IF filled.raised
            THEN /\ pc' = "failed"
                 /\ UNCHANGED object_vars
            ELSE /\ pc' = "constructed"
                 /\ SetObject(
                      IF ms # None
                      THEN [filled.self EXCEPT !.milestones =
                              filter_milestones(filled.self.milestones,
                                                filled.self.no_months)]
                      ELSE filled.self)
    /\ UNCHANGED <<packages_grid, phases_grid, checker_vars, chart_vars>>

\* plot(): both arrays are built with x_range = self.no_months.
Plot ==
    /\ pc = "constructed"
    /\ LET main_slots == to_boolean_array(Some(packages), no_months, no_months)
           voluntary_slots == to_boolean_array(phases, no_months, no_months)
       IN  IF main_slots.raised \/ voluntary_slots.raised
           THEN /\ pc' = "failed"
                /\ error' = [type |-> "ValueError", kind |-> "reshape",
                             column |-> ""]
                /\ UNCHANGED <<packages_grid, phases_grid>>
           ELSE /\ pc' = "plotted"
                /\ packages_grid' = main_slots.value
                /\ phases_grid' = voluntary_slots.value
                /\ UNCHANGED error
    /\ UNCHANGED <<ALL_COLUMNS, csv, data, milestones_arg, object_vars,
                   checker_vars, chart_vars>>

\* The example function returns: its chart and its frame are gone, the class
\* attribute stays.
Return ==
    /\ pc = "plotted"
    /\ pc' = "main"
    /\ csv' = None
    /\ data' = None
    /\ milestones_arg' = None
    /\ SetObject(NoObject)
    /\ packages_grid' = None
    /\ phases_grid' = None
    /\ UNCHANGED <<ALL_COLUMNS, error, checker_vars, chart_vars>>

Next == DefaultGantt \/ LoadData \/ Plot \/ Return

Spec == Init /\ [][Next]_vars

----------------------------------------------------------------------------
(* DataColumnChecker on its own: any list of recognized columns, any       *)
(* mandatory list, any state of the three columns of the table.            *)

\* The lists of distinct column names, the empty list included.
TargetLists ==
    {tc \in UNION {[1..n -> ColumnNames] : n \in 0..Cardinality(ColumnNames)} :
        \A i, j \in 1..Len(tc) : i # j => tc[i] # tc[j]}

MandatoryLists ==
    {SelectSeq(InitialALL_COLUMNS, LAMBDA c : c \in S) : S \in SUBSET ColumnNames}

FullRow == FileOf(<<1>>, <<1>>, <<1>>)

\* Each column is fine, absent, blank or text, independently of the others.
CheckerTables ==
    {Degrade(Degrade(Degrade(FullRow, "start", k[1]), "duration", k[2]),
             "phase_number", k[3]) :
        k \in [1..3 -> Kinds \cup {"fine"}]}

InitChecker ==
    /\ pc = "checker_call"
    /\ csv \in {Some(df) : df \in CheckerTables}
    /\ data = csv
    /\ recognized \in TargetLists
    /\ target_columns = recognized
    /\ mandatory_columns \in MandatoryLists
    /\ valid_columns = None
    /\ chart = DefaultChart
    /\ config = None
    /\ ALL_COLUMNS = InitialALL_COLUMNS
    /\ milestones_arg = None
    /\ no_months = NoObject.no_months
    /\ no_packages = NoObject.no_packages
    /\ no_phases = NoObject.no_phases
    /\ packages = NoObject.packages
    /\ phases = NoObject.phases
    /\ milestones = NoObject.milestones
    /\ error = NoError
    /\ packages_grid = None
    /\ phases_grid = None

\* checker = DataColumnChecker(data, target_columns, mandatory_columns)
\* followed by checker.get_valid_columns() when the constructor returned.
CheckColumns ==
    /\ pc = "checker_call"
    /\ LET checker ==
             DataColumnChecker(data[1], target_columns, mandatory_columns)
       IN  /\ target_columns' = checker.target_columns
           /\ error' = checker.error
           /\ IF checker.raised
              THEN /\ pc' = "checker_raised"
                   /\ valid_columns' = None
              ELSE /\ pc' = "checker_done"
                   /\ valid_columns' = Some(get_valid_columns(checker))
    /\ UNCHANGED <<ALL_COLUMNS, csv, data, milestones_arg, object_vars,
                   packages_grid, phases_grid, recognized, mandatory_columns,
                   chart_vars>>

NextChecker == CheckColumns

SpecChecker == InitChecker /\ [][NextChecker]_vars

----------------------------------------------------------------------------
(* _filter_milestones on its own: any short list, any project length.      *)

MilestoneLists ==
    UNION {[1..n -> (-2)..MaxMilestone] : n \in 0..MaxMilestones}

ScenarioC == <<-5, 3, 50>>

InitMilestones ==
    /\ pc = "filter_call"
    /\ \/ /\ milestones \in MilestoneLists
          /\ no_months \in 0..(MaxMilestone - 1)
       \/ /\ milestones = ScenarioC
          /\ no_months = 20
    /\ milestones_arg = Some(milestones)
    /\ ALL_COLUMNS = InitialALL_COLUMNS
    /\ csv = None
    /\ data = None
    /\ no_packages = NoObject.no_packages
    /\ no_phases = NoObject.no_phases
    /\ packages = NoObject.packages
    /\ phases = NoObject.phases
    /\ error = NoError
    /\ packages_grid = None
    /\ phases_grid = None
    /\ recognized = <<>>
    /\ target_columns = <<>>
    /\ mandatory_columns = <<>>
    /\ valid_columns = None
    /\ chart = DefaultChart
    /\ config = None

\* self._filter_milestones()
FilterMilestones ==
    /\ pc = "filter_call"
    /\ pc' = "filter_done"
    /\ milestones' = filter_milestones(milestones, no_months)
    /\ UNCHANGED <<ALL_COLUMNS, csv, data, milestones_arg, no_months,
                   no_packages, no_phases, packages, phases, error,
                   packages_grid, phases_grid, checker_vars, chart_vars>>

NextMilestones == FilterMilestones

SpecMilestones == InitMilestones /\ [][NextMilestones]_vars

----------------------------------------------------------------------------
(* load_config on a chart with the default appearance: any document.       *)

SectionNames == {"colors", "image", "font", "milestones", "labels"}

\* The roles a document may color: two the chart has and one it has not.
ConfigRoles == {"primary", "contrast", "accent"}

\* A name of the palette and a name that is none.
ConfigColors == {"navy", "nocolor"}

ColorSections ==
    UNION {[roles -> ConfigColors] : roles \in SUBSET ConfigRoles}

\* A section with all its keys, or with one of them left out.
KeySections(keys) == {keys, keys \ {CHOOSE key \in keys : TRUE}}

Documents ==
    [colors : {None} \cup {Some(c) : c \in ColorSections},
     image : {None} \cup {Some(k) : k \in KeySections(IMAGE_KEYS)},
     font : {None} \cup {Some(k) : k \in KeySections(FONT_KEYS)},
     milestones : {None} \cup {Some(k) : k \in KeySections(MILESTONES_KEYS)},
     labels : {None} \cup {Some(k) : k \in KeySections(LABELS_KEYS)}]

InitConfig ==
    /\ pc = "config_call"
    /\ config \in {Some(document) : document \in Documents}
    /\ chart = DefaultChart
    /\ ALL_COLUMNS = InitialALL_COLUMNS
    /\ csv = None
    /\ data = None
    /\ milestones_arg = None
    /\ no_months = NoObject.no_months
    /\ no_packages = NoObject.no_packages
    /\ no_phases = NoObject.no_phases
    /\ packages = NoObject.packages
    /\ phases = NoObject.phases
    /\ milestones = NoObject.milestones
    /\ error = NoError
    /\ packages_grid = None
    /\ phases_grid = None
    /\ recognized = <<>>
    /\ target_columns = <<>>
    /\ mandatory_columns = <<>>
    /\ valid_columns = None

\* Chart.load_config(filepath): yaml.safe_load, then _process_config.
LoadConfig ==
    /\ pc = "config_call"
    /\ LET processed == process_config(chart, config[1]) IN
       /\ chart' = processed.chart
       /\ error' = processed.error
       /\ pc' = IF processed.raised THEN "config_failed" ELSE "config_loaded"
    /\ UNCHANGED <<ALL_COLUMNS, csv, data, milestones_arg, object_vars,
                   packages_grid, phases_grid, checker_vars, config>>

NextConfig == LoadConfig

SpecConfig == InitConfig /\ [][NextConfig]_vars

----------------------------------------------------------------------------
(* Column validation (SpecChecker) *)

\* A column is unusable when it is not in the table, holds no value at all,
\* or is string-typed.
Unusable(column, df) ==
    \/ column \notin df.columns
    \/ \A i \in 1..Len(df.rows) : df.rows[i][column] = NaN
    \/ column \in df.strings

CheckerReturned == pc \in {"checker_done", "checker_raised"}

UnusableMandatory ==
    {c \in Range(recognized) \cap Range(mandatory_columns) :
        Unusable(c, csv[1])}

\* C1: if a recognized column that is mandatory fails the existence,
\* non-emptiness or numeric check, the construction of the checker raises an
\* error naming such a column and no list of valid columns is returned,
\* wherever the column stands in the list and whatever precedes it.
C1_MandatoryFailureRaises ==
    (CheckerReturned /\ UnusableMandatory # {})
        => /\ pc = "checker_raised"
           /\ valid_columns = None
           /\ error.column \in UnusableMandatory

\* C2: when every mandatory recognized column passes the three checks,
\* validation does not fail and get_valid_columns returns exactly the
\* recognized columns that pass them, in their original order.
C2_ValidColumnsExact ==
    (CheckerReturned /\ recognized # <<>> /\ UnusableMandatory = {})
        => /\ pc = "checker_done"
           /\ valid_columns =
                Some(SelectSeq(recognized, LAMBDA c : ~Unusable(c, csv[1])))

----------------------------------------------------------------------------
(* Loading a table (Spec) *)

\* A chart built from a table is held by the script.
Loaded == pc \in {"constructed", "plotted"} /\ csv # None

\* The records of the file that state a start, in file order.
Retained == SelectSeq(csv[1].rows, LAMBDA r : r.start # NaN)

\* After a load ALL_COLUMNS is the list the validation left, so the phase
\* column survived validation exactly when it is still in it.
PhaseSurvived == "phase_number" \in Range(ALL_COLUMNS)

RetainedIds == [i \in 1..Len(Retained) |-> Val(Retained[i].phase_number)]

Boundary(ids, i) == i = 1 \/ ids[i] # ids[i - 1]

NumRuns(ids) == Cardinality({i \in 1..Len(ids) : Boundary(ids, i)})

\* The position of the first record of the k-th run.
RunStart(ids, k) ==
    CHOOSE i \in 1..Len(ids) :
        /\ Boundary(ids, i)
        /\ Cardinality({j \in 1..i : Boundary(ids, j)}) = k

Contiguous(ids) ==
    \A i, j, k \in 1..Len(ids) :
        (i < j /\ j < k /\ ids[i] = ids[k]) => ids[j] = ids[i]

\* What loading the table gives in a process that has loaded nothing before.
FirstLoad == fill_from_csv(init_defaults(milestones_arg), csv[1],
                           InitialALL_COLUMNS)

\* C3: no state is shared between loads: a table loads to the same phases
\* and no_phases as when it is the first table loaded, and ALL_COLUMNS is
\* never changed by a load.
C3_NoSharedState ==
    /\ ALL_COLUMNS = InitialALL_COLUMNS
    /\ Loaded => /\ ~FirstLoad.raised
                 /\ phases = FirstLoad.self.phases
                 /\ no_phases = FirstLoad.self.no_phases

\* C4: after a load the package intervals are (s, s + d) for each record
\* with a start, in file order and nothing else; there are as many as
\* retained records and every interval ends after it starts.
C4_PackageIntervals ==
    Loaded =>
        /\ Len(packages) = Len(Retained)
        /\ \A i \in 1..Len(Retained) :
              /\ packages[i][1] = Val(Retained[i].start)
              /\ packages[i][2] =
                    Val(Retained[i].start) + Val(Retained[i].duration)
              /\ packages[i][2] > packages[i][1]

\* A load that dropped a record without start and kept at least two.
C4_Witness ==
    /\ Loaded
    /\ Len(Retained) < Len(csv[1].rows)
    /\ Len(packages) >= 2
    /\ packages[1] # packages[2]

\* C5: after a load phases and no_phases are None whenever the phase column
\* did not survive validation or holds a single distinct value.
C5_PhaseDataAbsent ==
    (Loaded /\ (~PhaseSurvived \/ Cardinality(Range(RetainedIds)) <= 1))
        => (phases = None /\ no_phases = None)

\* A load attempt on a table whose three columns are usable and complete,
\* with the phase column among the recognized ones and at least two phase
\* ids that form contiguous runs.
ContiguousRunsLoad ==
    /\ pc \in {"constructed", "plotted", "failed"}
    /\ csv # None
    /\ PhaseSurvived
    /\ \A c \in ColumnNames : ~Unusable(c, csv[1])
    /\ \A i \in 1..Len(Retained) :
          Retained[i].duration # NaN /\ Retained[i].phase_number # NaN
    /\ Cardinality(Range(RetainedIds)) >= 2
    /\ Contiguous(RetainedIds)

\* C6: for group ids with at least two distinct values in contiguous runs,
\* phase aggregation succeeds and gives one interval per run, whatever the
\* id values are.
C6_OneIntervalPerRun ==
    ContiguousRunsLoad =>
        /\ pc # "failed"
        /\ phases # None
        /\ Len(phases[1]) = NumRuns(RetainedIds)

\* The phases of the object were composed by this load.
PhasesComposed == Loaded /\ PhaseSurvived /\ NumRuns(RetainedIds) >= 2

\* C7: with at least two runs of group ids, the last phase interval
\* produced ends exactly at no_months.
C7_LastPhaseEndsAtTotal ==
    PhasesComposed =>
        /\ phases # None
        /\ phases[1][Len(phases[1])][2] = no_months

\* Phases were composed and the last record ends elsewhere than no_months.
C7_Witness ==
    /\ PhasesComposed
    /\ phases # None
    /\ packages[Len(packages)][2] # no_months

IsGridOf(grid, arr, width) ==
    /\ Len(grid) = Len(arr)
    /\ \A i \in 1..Len(arr) :
          /\ Len(grid[i]) = width
          /\ (0 <= arr[i][1] /\ arr[i][1] < arr[i][2] /\ arr[i][2] <= width)
                => \A c \in 0..(width - 1) :
                      grid[i][c + 1] <=> (arr[i][1] <= c /\ c < arr[i][2])

----------------------------------------------------------------------------
(* Milestone filtering (SpecMilestones) *)

\* C9: filtering with total duration T keeps exactly the milestones m with
\* 0 <= m <= T, in their original order, and always returns; Scenario C,
\* [-5, 3, 50] with T = 20, gives [3].
C9_MilestonesFiltered ==
    pc = "filter_done" =>
        /\ milestones =
              SelectSeq(milestones_arg[1],
                        LAMBDA m : 0 <= m /\ m <= no_months)
        /\ (milestones_arg = Some(ScenarioC) /\ no_months = 20)
              => milestones = <<3>>

\* A run that dropped a negative milestone and one beyond T, and kept both
\* 0 and T.
C9_Witness ==
    /\ pc = "filter_done"
    /\ \E i \in 1..Len(milestones_arg[1]) : milestones_arg[1][i] < 0
    /\ \E i \in 1..Len(milestones_arg[1]) : milestones_arg[1][i] > no_months
    /\ no_months > 0
    /\ \E i \in 1..Len(milestones) : milestones[i] = no_months

----------------------------------------------------------------------------
(* Configuration (SpecConfig) *)

ConfigReturned == pc \in {"config_loaded", "config_failed"}

\* The keys the chart's default dictionary of a section holds.
FullSection(section) == DefaultChart[section]

\* C11, as stated: the load succeeds exactly when the four sections colors,
\* image, milestones and labels are in the document, each of the last three
\* with all its keys; no other section is required.
C11_FourFullSections ==
    ConfigReturned =>
        (pc = "config_loaded" <=>
            /\ config[1].colors # None
            /\ \A section \in {"image", "milestones", "labels"} :
                  /\ config[1][section] # None
                  /\ config[1][section][1] = FullSection(section))

\* C11: the load succeeds exactly when the five sections colors, image,
\* font, milestones and labels are in the document, whatever keys they
\* hold; image, font, milestones and labels of the chart are then the
\* document's sections as they are, and a failed load is a KeyError that
\* names a section the document lacks.
C11_FiveSectionsPresent ==
    ConfigReturned =>
        /\ pc = "config_loaded" <=>
              \A section \in SectionNames : config[1][section] # None
        /\ pc = "config_loaded" =>
              \A section \in SectionNames \ {"colors"} :
                  chart[section] = config[1][section][1]
        /\ pc = "config_failed" =>
              /\ error.type = "KeyError"
              /\ error.kind \in SectionNames
              /\ config[1][error.kind] = None

\* A load that succeeded with an image section that lacks a key.
C11_Witness ==
    /\ pc = "config_loaded"
    /\ config[1].image[1] # IMAGE_KEYS
    /\ chart.image = config[1].image[1]

\* C12: after a load, each colors entry with a name of the palette is the
\* chart's color of that role, each entry with another name left the role
\* as it was (its default, or absent), the roles the document does not
\* mention keep their default, and a load fails only for a missing section.
C12_KnownColorsReplace ==
    /\ pc = "config_loaded" =>
          LET entries == config[1].colors[1] IN
          /\ \A role \in DOMAIN entries :
                IF entries[role] \in CSS4_COLORS
                THEN role \in DOMAIN chart.colors
                     /\ chart.colors[role] = entries[role]
                ELSE IF role \in DOMAIN DEFAULT_COLORS
                     THEN chart.colors[role] = DEFAULT_COLORS[role]
                     ELSE role \notin DOMAIN chart.colors
          /\ \A role \in DOMAIN DEFAULT_COLORS \ DOMAIN entries :
                chart.colors[role] = DEFAULT_COLORS[role]
    /\ pc = "config_failed" =>
          \E section \in SectionNames : config[1][section] = None

\* A load that replaced one color and ignored an unknown name for another
\* role of the chart.
C12_Witness ==
    /\ pc = "config_loaded"
    /\ config[1].colors[1] = [primary |-> "navy", contrast |-> "nocolor"]
    /\ chart.colors.primary = "navy"
    /\ chart.colors.contrast = "darkred"

----------------------------------------------------------------------------
(* Empty list of recognized columns (SpecChecker) *)

\* C13: validation with an empty list of recognized columns raises, for
\* every table and every list of mandatory columns, and the error is the
\* one of the empty list, not the result of a column check; nothing is
\* returned.
C13_EmptyRecognizedRaises ==
    (CheckerReturned /\ recognized = <<>>) =>
        /\ pc = "checker_raised"
        /\ error = [type |-> "Exception", kind |-> "empty_target_columns",
                    column |-> ""]
        /\ valid_columns = None
        /\ target_columns = <<>>

\* The empty list met a table with no usable column and a mandatory column.
C13_Witness ==
    /\ pc = "checker_raised"
    /\ recognized = <<>>
    /\ mandatory_columns # <<>>
    /\ \A c \in ColumnNames : Unusable(c, csv[1])
    /\ error.kind = "empty_target_columns"

----------------------------------------------------------------------------
(* Derived attributes and rendering (Spec) *)

\* C14: after every successful load, no_packages is the number of work
\* packages: the number of retained records and of rows of packages.
C14_PackageCount ==
    Loaded => /\ no_packages = Len(Retained)
              /\ no_packages = Len(packages)

DocstringPhases ==
    << <<0, 20>>, <<6, 21>>, <<12, 25>>, <<20, 41>>, <<27, 44>>, <<38, 47>>,
       <<44, 48>> >>

LastStarted ==
    CHOOSE i \in 1..Len(Retained) :
        /\ \A j \in 1..Len(Retained) :
              Val(Retained[j].start) <= Val(Retained[i].start)
        /\ \A j \in 1..(i - 1) :
              Val(Retained[j].start) < Val(Retained[i].start)

\* C16: after every successful load, no_months is the start of the retained
\* record with the largest start (the first of them in the file) plus the
\* duration of that same record; the records (0,3), (3,4) give 7.
C16_DurationFromLastStarted ==
    Loaded =>
        /\ no_months = Val(Retained[LastStarted].start)
                         + Val(Retained[LastStarted].duration)
        /\ csv = Some(ScenarioA) => no_months = 7

\* A load whose last started record ends before another record does.
C16_Witness ==
    /\ Loaded
    /\ \E i \in 1..Len(Retained) :
          Val(Retained[i].start) + Val(Retained[i].duration) > no_months
    /\ no_months = Val(Retained[LastStarted].start)
                     + Val(Retained[LastStarted].duration)

\* C17: in every state reached by a successful load, no_months, the width
\* plot passes to the occupancy grid, is at least the end of every package
\* interval and of every phase interval of the object.
C17_WidthCoversIntervals ==
    Loaded =>
        /\ \A i \in 1..Len(packages) : packages[i][2] <= no_months
        /\ phases # None =>
              \A k \in 1..Len(phases[1]) : phases[1][k][2] <= no_months

\* C18: every object that can be rendered, constructed with or without
\* data and with or without a list of milestones, holds only milestones m
\* with 0 <= m <= no_months.
C18_MilestonesWithinProject ==
    pc \in {"constructed", "plotted"} =>
        \A i \in 1..Len(milestones) :
            0 <= milestones[i] /\ milestones[i] <= no_months

====
